---- MODULE Spec2Model ----
(***************************************************************************)
(* Approval gate (HumanInTheLoopManager) and Think-Act-Observe workflow    *)
(* engine (WorkflowEngine) of the agent extension, as a state machine.     *)
(* One action per public method, timer callback, dialog answer or          *)
(* resumption of an awaiting async function; the synchronous code between  *)
(* two awaits is one atomic step (single-threaded event loop).             *)
(***************************************************************************)
EXTENDS Integers, Sequences, FiniteSets, TLC

(***************************************************************************)
(* Bounds of the model                                                     *)
(***************************************************************************)
MaxReq == 1          \* approval requests created in one behaviour
MaxExec == 1         \* executeWorkflow calls in one behaviour
MaxShown == 2        \* presentations of the dialog for one request
MaxEvict == 2        \* history timers armed at once for one request
MaxRules == 4         \* length of the governance rule list
MaxConcurrent == 2   \* executeWorkflow calls in flight together
MaxAudit == 2        \* rule-decided requestApproval calls logged or waiting to be
MaxLogged == 1       \* entries in the log that are not approvals
MaxClearing == 1     \* clearLogs calls waiting for their save to settle

(***************************************************************************)
(* Program constants                                                       *)
(***************************************************************************)
DefaultApprovalTimeout == 30000   \* humanInTheLoop.ts:33
DefaultMaxIterations == 5         \* workflow engine, executeWorkflowInternal
HistoryRetentionMs == 60000       \* humanInTheLoop.ts:109
WorkflowRetentionMs == 60000      \* workflow engine, executeWorkflow
MaxLogEntries == 1000             \* humanInTheLoop.ts:304
BaseMaxIterations == 3            \* baseWorkflow.ts:21
ReshowDelayMs == 500              \* humanInTheLoop.ts:240

Undefined == "undefined"
UndefinedMs == -1     \* an optional number that was not given
BoolStr(b) == IF b THEN "true" ELSE "false"

ReqIds == 1..MaxReq
ExecIds == 1..MaxExec
ConcurrentIds == 1..MaxConcurrent

(***************************************************************************)
(* Text.  Strings are sequences of one-character strings so that the       *)
(* regular expressions of the governance rules can be evaluated.           *)
(***************************************************************************)
UpperCase == <<"A","B","C","D","E","F","G","H","I","J","K","L","M",
               "N","O","P","Q","R","S","T","U","V","W","X","Y","Z">>
LowerCase == <<"a","b","c","d","e","f","g","h","i","j","k","l","m",
               "n","o","p","q","r","s","t","u","v","w","x","y","z">>

ToLowerChar(c) ==
  IF \E i \in 1..Len(UpperCase) : UpperCase[i] = c
  THEN LowerCase[CHOOSE i \in 1..Len(UpperCase) : UpperCase[i] = c]
  ELSE c

ToLower(s) == [i \in 1..Len(s) |-> ToLowerChar(s[i])]

\* s contains the literal lit as a substring
Contains(s, lit) ==
  \E off \in 0..(Len(s) - Len(lit)) :
     \A k \in 1..Len(lit) : s[off + k] = lit[k]

\* RegExp.prototype.test for the shapes the rules use: an alternation of
\* literals (optionally with the i flag), or /.*/ which matches any string.
PatternTest(pattern, s) ==
  \/ pattern.any
  \/ \E lit \in pattern.alts :
        IF pattern.icase THEN Contains(ToLower(s), ToLower(lit))
                         ELSE Contains(s, lit)

TxtRead == <<"r","e","a","d">>
TxtWrite == <<"w","r","i","t","e">>
TxtDelete == <<"d","e","l","e","t","e">>
TxtModify == <<"m","o","d","i","f","y">>
TxtRemove == <<"r","e","m","o","v","e">>
TxtCreate == <<"c","r","e","a","t","e">>
TxtList == <<"l","i","s","t">>
TxtGet == <<"g","e","t">>
TxtFetch == <<"f","e","t","c","h">>
TxtSearch == <<"s","e","a","r","c","h">>
TxtFetchCap == <<"F","e","t","c","h">>
TxtDeploy == <<"d","e","p","l","o","y">>
TxtTest == <<"t","e","s","t">>
TxtRunTest == <<"R","u","n"," ","T","E","S","T">>
TxtWorkflowExecution ==
  <<"w","o","r","k","f","l","o","w","_","e","x","e","c","u","t","i","o","n">>
TxtPlanBuild == <<"b","u","i","l","d">>

\* the regular expressions of the rules, by their source text
RegExp ==
  [p \in {"/write|delete|modify|remove|create/i", "/read|list|get|fetch|search/i",
          "/.*/", "/test/i", "/deploy/"} |->
     CASE p = "/write|delete|modify|remove|create/i" ->
            [alts |-> {TxtWrite, TxtDelete, TxtModify, TxtRemove, TxtCreate},
             any |-> FALSE, icase |-> TRUE]
       [] p = "/read|list|get|fetch|search/i" ->
            [alts |-> {TxtRead, TxtList, TxtGet, TxtFetch, TxtSearch},
             any |-> FALSE, icase |-> TRUE]
       [] p = "/.*/" -> [alts |-> {}, any |-> TRUE, icase |-> FALSE]
       [] p = "/test/i" -> [alts |-> {TxtTest}, any |-> FALSE, icase |-> TRUE]
       [] p = "/deploy/" -> [alts |-> {TxtDeploy}, any |-> FALSE, icase |-> FALSE]]

\* the texts that occur as type or description of an action
Texts == {TxtRead, TxtWrite, TxtDeploy, TxtFetchCap, TxtRunTest,
          TxtWorkflowExecution, TxtPlanBuild}

\* pattern.test(text), evaluated once for every pattern and text
TestResult ==
  [p \in DOMAIN RegExp |-> [t \in Texts |-> PatternTest(RegExp[p], t)]]

(***************************************************************************)
(* Inputs                                                                  *)
(***************************************************************************)
MkAction(type, description, impact, reversible) ==
  [type |-> type, description |-> description, impact |-> impact,
   reversible |-> reversible]

\* actions handed to requestApproval by callers other than the engine
ApiActions ==
  { MkAction(TxtRead, TxtPlanBuild, "low", TRUE),
    MkAction(TxtWrite, TxtPlanBuild, "medium", TRUE),
    MkAction(TxtDeploy, TxtFetchCap, "high", FALSE),
    MkAction(TxtDeploy, TxtRunTest, "high", FALSE),
    MkAction(TxtWrite, TxtFetchCap, "medium", TRUE) }

\* the actions used where the rules do not change
LifecycleActions ==
  { MkAction(TxtRead, TxtPlanBuild, "low", TRUE),
    MkAction(TxtWrite, TxtPlanBuild, "medium", TRUE) }

TimeoutArgs == {UndefinedMs, 0, 1000}

Comments == {Undefined, "ok"}

\* rules callers add on top of the default ones
CustomRules ==
  { [id |-> "test-rule", pattern |-> "/test/i", requiresApproval |-> FALSE,
     autoApprove |-> TRUE, priority |-> 200],
    [id |-> "deploy-rule", pattern |-> "/deploy/", requiresApproval |-> TRUE,
     autoApprove |-> TRUE, priority |-> 50] }

Configs ==
  [approvalTimeout : {0, 5000},
   maxConcurrentWorkflows : {0, 1, 2},
   autoApproveReadOnly : BOOLEAN]

(***************************************************************************)
(* State                                                                   *)
(***************************************************************************)
VARIABLES
  config,            \* ExtensionConfig shared by the gate and the engine
  governanceRules,   \* HumanInTheLoopManager.governanceRules
  requests,          \* the ApprovalRequest objects, by id
  pendingApprovals,  \* keys of HumanInTheLoopManager.pendingApprovals
  approvalHandlers,  \* keys of HumanInTheLoopManager.approvalHandlers
  promise,           \* per request: the promise requestApproval returned
  timers,            \* per request: timeout, history and re-show timers
  dialog,            \* per request: the modal dialog, and whether
                     \* showApprovalDialog awaits the dashboard command
  nextReq,           \* next fresh request id (uuidv4)
  lastCall,          \* the last call of a value-returning method or of
                     \* dispose, if the last step was one: its arguments
                     \* and its result
  activeWorkflows,   \* keys of WorkflowEngine.activeWorkflows
  exec,              \* per executeWorkflow call: its state object, its
                     \* position and its strategy
  nextExec,          \* next fresh workflow id (uuidv4)
  audit              \* AuditLogger: its entries, what it persisted, and the
                     \* requestApproval calls of ApprovalManager that wait
                     \* for the gate or for logApproval

gateVars == <<governanceRules, requests, pendingApprovals, approvalHandlers,
              promise, timers, dialog, nextReq>>
engineVars == <<activeWorkflows, exec, nextExec>>
vars == <<config, gateVars, lastCall, engineVars, audit>>

Call(op, id, arg, ret) == [op |-> op, id |-> id, arg |-> arg, ret |-> ret]
\* the last step was no call of a method that returns a value
NoCall == Call("none", 0, Undefined, Undefined)

(***************************************************************************)
(* Governance rules                                                        *)
(***************************************************************************)
\* Array.prototype.sort((a, b) => b.priority - a.priority): stable,
\* descending priority.
RECURSIVE SortByPriority(_)
InsertByPriority(rule, sorted) ==
  LET after == {i \in 1..Len(sorted) : sorted[i].priority < rule.priority}
      pos == IF after = {} THEN Len(sorted) + 1
             ELSE CHOOSE i \in after : \A j \in after : i <= j
  IN SubSeq(sorted, 1, pos - 1) \o <<rule>> \o SubSeq(sorted, pos, Len(sorted))
SortByPriority(rules) ==
  IF rules = <<>> THEN <<>>
  ELSE InsertByPriority(rules[Len(rules)],
                        SortByPriority(SubSeq(rules, 1, Len(rules) - 1)))

\* mutant: the list is not sorted after the push
AddRuleToUnsorted(rules, rule) == Append(rules, rule)

\* addRule: push, then sort
AddRuleTo(rules, rule) == SortByPriority(Append(rules, rule))

\* removeRule: findIndex, splice
FindIndex(rules, ruleId) ==
  IF \E i \in 1..Len(rules) : rules[i].id = ruleId
  THEN CHOOSE i \in 1..Len(rules) :
         rules[i].id = ruleId /\ \A j \in 1..(i - 1) : rules[j].id # ruleId
  ELSE -1
RemoveRuleFrom(rules, ruleId) ==
  LET index == FindIndex(rules, ruleId)
  IN IF index = -1 THEN rules
     ELSE SubSeq(rules, 1, index - 1) \o SubSeq(rules, index + 1, Len(rules))

\* getRules(): a copy of the list
GetRules == governanceRules

SetupDefaultRules(cfg) ==
  AddRuleTo(
    AddRuleTo(
      AddRuleTo(<<>>,
        [id |-> "file-system-write", pattern |-> "/write|delete|modify|remove|create/i",
         requiresApproval |-> TRUE, autoApprove |-> FALSE, priority |-> 100]),
      [id |-> "read-only", pattern |-> "/read|list|get|fetch|search/i",
       requiresApproval |-> FALSE, autoApprove |-> cfg.autoApproveReadOnly,
       priority |-> 50]),
    [id |-> "high-impact", pattern |-> "/.*/",
     requiresApproval |-> TRUE, autoApprove |-> FALSE, priority |-> 10])

RuleMatches(rule, action) ==
  TestResult[rule.pattern][action.type]
    \/ TestResult[rule.pattern][action.description]

\* mutant: only the first matching rule is looked at
ShouldAutoApproveFirstMatch(rules, action) ==
  \E i \in 1..Len(rules) :
     /\ RuleMatches(rules[i], action)
     /\ \A j \in 1..(i - 1) : ~RuleMatches(rules[j], action)
     /\ rules[i].autoApprove

\* shouldAutoApprove: some matching rule has autoApprove
ShouldAutoApprove(rules, action) ==
  \E i \in 1..Len(rules) : RuleMatches(rules[i], action) /\ rules[i].autoApprove

ShouldAutoDeny(action) == FALSE

\* timeout || this.config.approvalTimeout || 30000
Falsy(v) == v = UndefinedMs \/ v = 0
TimeoutMs(timeout, cfg) ==
  IF ~Falsy(timeout) THEN timeout
  ELSE IF ~Falsy(cfg.approvalTimeout) THEN cfg.approvalTimeout
  ELSE DefaultApprovalTimeout

(***************************************************************************)
(* Promises and timers                                                     *)
(***************************************************************************)
\* calling the resolve function of a promise: the first call settles it,
\* later calls are ignored by the promise but are still calls
ResolvePromise(p, value) ==
  [calls |-> p.calls + 1,
   value |-> IF p.value = "pending" THEN BoolStr(value) ELSE p.value]

\* mutant: the timeout timer is left running
ClearTimeoutForgotten(t) == t

\* clearTimeout(handler.timeout)
ClearTimeout(t) ==
  [t EXCEPT !.timeout = IF @ = "armed" THEN "cleared" ELSE @]

(***************************************************************************)
(* HumanInTheLoopManager                                                   *)
(***************************************************************************)
\* getPendingApprovals: the values of the table whose status is pending
GetPendingApprovals ==
  {id \in pendingApprovals : requests[id].status = "pending"}

\* getAllApprovals: every value of the table
GetAllApprovals == pendingApprovals

\* showApprovalDialog up to its await: the modal dialog is presented
ShowApprovalDialog(d) ==
  [open |-> TRUE, shown |-> d.shown + 1, command |-> FALSE]

\* mutant: the request is created without a timeout timer
CreateApprovalRequestWithoutTimer(action, timeout) ==
  LET id == nextReq
  IN /\ nextReq <= MaxReq
     /\ nextReq' = nextReq + 1
     /\ requests' = requests @@
          (id :> [action |-> action, status |-> "pending",
                  response |-> Undefined])
     /\ pendingApprovals' = pendingApprovals \cup {id}
     /\ promise' = promise @@ (id :> [calls |-> 0, value |-> "pending"])
     /\ timers' = timers @@
          (id :> [timeout |-> "none", ms |-> TimeoutMs(timeout, config),
                  evict |-> 0, reshow |-> FALSE])
     /\ approvalHandlers' = approvalHandlers \cup {id}
     /\ dialog' = dialog @@ (id :> ShowApprovalDialog([open |-> FALSE, shown |-> 0,
                                                     command |-> FALSE]))
     /\ UNCHANGED governanceRules

\* requestApproval past the rule checks: the request is created and stored,
\* the timeout timer is started, the handler stored and the dialog shown.
CreateApprovalRequest(action, timeout) ==
  LET id == nextReq
  IN /\ nextReq <= MaxReq
     /\ nextReq' = nextReq + 1
     /\ requests' = requests @@
          (id :> [action |-> action, status |-> "pending",
                  response |-> Undefined])
     /\ pendingApprovals' = pendingApprovals \cup {id}
     /\ promise' = promise @@ (id :> [calls |-> 0, value |-> "pending"])
     /\ timers' = timers @@
          (id :> [timeout |-> "armed", ms |-> TimeoutMs(timeout, config),
                  evict |-> 0, reshow |-> FALSE])
     /\ approvalHandlers' = approvalHandlers \cup {id}
     /\ dialog' = dialog @@ (id :> ShowApprovalDialog([open |-> FALSE, shown |-> 0,
                                                     command |-> FALSE]))
     /\ UNCHANGED governanceRules

\* mutant: the callback resolves but leaves the request in the table
TimeoutCallbackKeepsRequest(id) ==
  /\ requests' = [requests EXCEPT ![id].status = "expired"]
  /\ approvalHandlers' = approvalHandlers \ {id}
  /\ promise' = [promise EXCEPT ![id] = ResolvePromise(@, FALSE)]
  /\ timers' = [timers EXCEPT ![id].timeout = "fired"]
  /\ UNCHANGED <<governanceRules, pendingApprovals, dialog, nextReq>>

\* mutant: the callback leaves the handler in the handler table
TimeoutCallbackKeepsHandler(id) ==
  /\ requests' = [requests EXCEPT ![id].status = "expired"]
  /\ pendingApprovals' = pendingApprovals \ {id}
  /\ promise' = [promise EXCEPT ![id] = ResolvePromise(@, FALSE)]
  /\ timers' = [timers EXCEPT ![id].timeout = "fired"]
  /\ UNCHANGED <<governanceRules, approvalHandlers, dialog, nextReq>>

\* the callback of the timeout timer of request id
TimeoutCallback(id) ==
  /\ requests' = [requests EXCEPT ![id].status = "expired"]
  /\ pendingApprovals' = pendingApprovals \ {id}
  /\ approvalHandlers' = approvalHandlers \ {id}
  /\ promise' = [promise EXCEPT ![id] = ResolvePromise(@, FALSE)]
  /\ timers' = [timers EXCEPT ![id].timeout = "fired"]
  /\ UNCHANGED <<governanceRules, dialog, nextReq>>

\* handleApproval(requestId, approved, comment); `shown` is the dialog
\* table after the caller's own change to it
HandleApprovalBody(id, approved, comment, shown) ==
  IF id \notin pendingApprovals
  THEN /\ dialog' = shown
       /\ UNCHANGED <<governanceRules, requests, pendingApprovals,
                      approvalHandlers, promise, timers, nextReq>>
  ELSE /\ timers[id].evict < MaxEvict
       /\ requests' = [requests EXCEPT
                         ![id].status = IF approved THEN "approved" ELSE "denied",
                         ![id].response = comment]
       /\ IF id \in approvalHandlers
          THEN /\ timers' = [timers EXCEPT
                               ![id] = [ClearTimeout(@) EXCEPT !.evict = @ + 1]]
               /\ promise' = [promise EXCEPT ![id] = ResolvePromise(@, approved)]
               /\ approvalHandlers' = approvalHandlers \ {id}
          ELSE /\ timers' = [timers EXCEPT ![id].evict = @ + 1]
               /\ UNCHANGED <<promise, approvalHandlers>>
       /\ dialog' = shown
       /\ UNCHANGED <<governanceRules, pendingApprovals, nextReq>>

\* the callback of a history timer armed by handleApproval
HistoryCallback(id) ==
  /\ pendingApprovals' = pendingApprovals \ {id}
  /\ timers' = [timers EXCEPT ![id].evict = @ - 1]
  /\ UNCHANGED <<governanceRules, requests, approvalHandlers, promise,
                 dialog, nextReq>>

\* mutant: the status of the request is not tested
CancelApprovalReturnsKnown(id) == id \in pendingApprovals

\* cancelApproval(requestId)
CancelApprovalReturns(id) ==
  id \in pendingApprovals /\ requests[id].status = "pending"
CancelApprovalBody(id) ==
  IF ~CancelApprovalReturns(id)
  THEN UNCHANGED gateVars
  ELSE /\ requests' = [requests EXCEPT ![id].status = "denied",
                                       ![id].response = "Cancelled"]
       /\ IF id \in approvalHandlers
          THEN /\ timers' = [timers EXCEPT ![id] = ClearTimeout(@)]
               /\ promise' = [promise EXCEPT ![id] = ResolvePromise(@, FALSE)]
          ELSE UNCHANGED <<timers, promise>>
       /\ approvalHandlers' = approvalHandlers \ {id}
       /\ pendingApprovals' = pendingApprovals \ {id}
       /\ UNCHANGED <<governanceRules, dialog, nextReq>>

\* mutant: the timers of the pending requests are left running
DisposeBodyLeavesTimers ==
  /\ promise' = [id \in DOMAIN promise |->
                  IF id \in approvalHandlers THEN ResolvePromise(promise[id], FALSE)
                  ELSE promise[id]]
  /\ approvalHandlers' = {}
  /\ pendingApprovals' = {}
  /\ UNCHANGED <<governanceRules, requests, timers, dialog, nextReq>>

\* dispose()
DisposeBody ==
  /\ timers' = [id \in DOMAIN timers |->
                  IF id \in approvalHandlers THEN ClearTimeout(timers[id])
                  ELSE timers[id]]
  /\ promise' = [id \in DOMAIN promise |->
                  IF id \in approvalHandlers THEN ResolvePromise(promise[id], FALSE)
                  ELSE promise[id]]
  /\ approvalHandlers' = {}
  /\ pendingApprovals' = {}
  /\ UNCHANGED <<governanceRules, requests, dialog, nextReq>>

\* ApprovalManager.getApprovalStats(): counts over getAllApprovals()
GetApprovalStats ==
  LET count(status) ==
        Cardinality({id \in GetAllApprovals : requests[id].status = status})
  IN [total |-> Cardinality(GetAllApprovals),
      approved |-> count("approved"),
      denied |-> count("denied"),
      pending |-> count("pending"),
      expired |-> count("expired")]

(***************************************************************************)
(* WorkflowEngine                                                          *)
(***************************************************************************)
\* mutant: the configured cap is not read
MaxIterationsIgnoresConfig(cfg) == DefaultMaxIterations

\* const maxIterations = this.config.maxConcurrentWorkflows || 5
MaxIterations(cfg) ==
  IF ~Falsy(cfg.maxConcurrentWorkflows) THEN cfg.maxConcurrentWorkflows
  ELSE DefaultMaxIterations

\* what the strategy's phases may return in iteration k
Plans == {TxtPlanBuild, TxtRunTest}
Analyses(k) ==
  { [plan |-> TxtPlanBuild, steps |-> <<k>>, requiresApproval |-> FALSE],
    [plan |-> TxtPlanBuild, steps |-> <<k>>, requiresApproval |-> TRUE],
    [plan |-> TxtRunTest, steps |-> <<k>>, requiresApproval |-> TRUE] }
ActionResults(k) == { <<[stepId |-> k, success |-> TRUE]>> }
ObservationsOf(k) ==
  { [success |-> sr[1], requiresIteration |-> sr[2],
     feedback |-> <<"Iteration ", k>>] :
      sr \in {<<TRUE, FALSE>>, <<FALSE, FALSE>>, <<FALSE, TRUE>>} }

NoPhase == [name |-> Undefined, status |-> Undefined]

\* a strategy that extends BaseWorkflow: iterations = 0
NewBaseWorkflow == [iterations |-> 0]

\* BaseWorkflow.refine(observations): counts, and at its own cap clears
\* requiresIteration of the observations object it was given; returns this
BaseWorkflowRefine(workflow, observations) ==
  LET iterations == workflow.iterations + 1
  IN [workflow |-> [workflow EXCEPT !.iterations = iterations],
      observations |->
        IF iterations >= BaseMaxIterations
        THEN [observations EXCEPT !.requiresIteration = FALSE]
        ELSE observations]

EmptyAnalysis == [plan |-> <<>>, steps |-> <<>>, requiresApproval |-> FALSE]

\* mutant: the end time is not stamped
FinallyForgetsEndTime(x) ==
  [x EXCEPT !.state.status = "completed",
            !.timer = "armed"]

\* the finally block of executeWorkflow: the end time, the status and the
\* retention timer
Finally(x) ==
  [x EXCEPT !.state.endTime = "set",
            !.state.status = "completed",
            !.timer = "armed"]

\* the result returned when the loop is left by break
MaxIterationsResult(x) ==
  [success |-> FALSE,
   analysis |-> EmptyAnalysis,
   actions |-> <<>>,
   observations |->
     [success |-> FALSE, requiresIteration |-> FALSE,
      feedback |-> <<"Max iterations (", MaxIterations(config), ") reached">>],
   iterations |-> x.state.iterations]

\* mutant: the result always reports success
CompletedResultAlwaysSucceeds(x, observations) ==
  [success |-> TRUE,
   analysis |-> x.analysis[1],
   actions |-> x.actions[1],
   observations |-> observations,
   iterations |-> x.state.iterations]

\* the result returned when observe asks for no further iteration
CompletedResult(x, observations) ==
  [success |-> observations.success,
   analysis |-> x.analysis[1],
   actions |-> x.actions[1],
   observations |-> observations,
   iterations |-> x.state.iterations]

\* mutant: the denial is reported as a success
DeniedResultSucceeds(x) ==
  [success |-> TRUE,
   analysis |-> x.analysis[1],
   actions |-> <<>>,
   observations |->
     [success |-> TRUE, requiresIteration |-> FALSE,
      feedback |-> <<"Action denied by user">>],
   iterations |-> x.state.iterations]

\* the result returned when the approval is denied
DeniedResult(x) ==
  [success |-> FALSE,
   analysis |-> x.analysis[1],
   actions |-> <<>>,
   observations |->
     [success |-> FALSE, requiresIteration |-> FALSE,
      feedback |-> <<"Action denied by user">>],
   iterations |-> x.state.iterations]

\* mutant: the token is not looked at
IsCancellationRequestedIgnored(x) == FALSE

\* token?.isCancellationRequested
IsCancellationRequested(x) == x.token

\* mutant: one iteration too many
ReachedMaxIterationsOffByOne(x) == x.state.iterations > MaxIterations(config)

\* state.iterations >= maxIterations
ReachedMaxIterations(x) == x.state.iterations >= MaxIterations(config)

\* top of the while loop up to the await of think(), or up to the throw or
\* the return that ends executeWorkflowInternal; the finally block of
\* executeWorkflow runs in a later step
LoopTop(x) ==
  IF IsCancellationRequested(x)
  THEN [x EXCEPT !.state.status = "failed",
                 !.state.error = "Cancelled by user",
                 !.pc = "finally",
                 !.thrown = "Workflow cancelled"]
  ELSE IF ReachedMaxIterations(x)
  THEN [x EXCEPT !.state.status = "completed",
                 !.pc = "finally",
                 !.result = <<MaxIterationsResult(x)>>]
  ELSE [x EXCEPT !.analysis = <<>>, !.actions = <<>>, !.observations = <<>>,
                 !.state.iterations = @ + 1,
                 !.state.status = "thinking",
                 !.state.currentPhase = [name |-> "think", status |-> "in_progress"],
                 !.calls.think = @ + 1,
                 !.pc = "think"]

\* mutant: the token is checked again before the act phase
StartActChecksToken(x) ==
  IF x.token
  THEN [x EXCEPT !.state.status = "failed",
                 !.state.error = "Cancelled by user",
                 !.pc = "finally",
                 !.thrown = "Workflow cancelled"]
  ELSE [x EXCEPT !.state.status = "acting",
                 !.state.currentPhase = [name |-> "act", status |-> "in_progress"],
                 !.calls.act = @ + 1,
                 !.pc = "act"]

\* ACT PHASE up to the await of act()
StartAct(x) ==
  [x EXCEPT !.state.status = "acting",
            !.state.currentPhase = [name |-> "act", status |-> "in_progress"],
            !.calls.act = @ + 1,
            !.pc = "act"]

\* mutant: the configuration flag is not consulted
RequiresGateIgnoresFlag(analysis, cfg) == analysis.requiresApproval

\* analysis.requiresApproval && !this.config.autoApproveReadOnly
RequiresGate(analysis, cfg) ==
  analysis.requiresApproval /\ ~cfg.autoApproveReadOnly

\* mutant: a call is refused while maxConcurrentWorkflows executions run
ExecuteWorkflowLimited(tokenCancelled) ==
  LET id == nextExec
      running == {e \in DOMAIN exec : exec[e].pc \notin {"returned", "thrown"}}
      x == [pc |-> "start",
            state |-> [status |-> "thinking", iterations |-> 0,
                       error |-> Undefined, endTime |-> Undefined,
                       currentPhase |-> NoPhase],
            token |-> tokenCancelled,
            calls |-> [think |-> 0, gate |-> 0, act |-> 0, observe |-> 0,
                       refine |-> 0],
            analysis |-> <<>>, actions |-> <<>>, observations |-> <<>>,
            gateReq |-> 0, result |-> <<>>, thrown |-> Undefined,
            timer |-> "none",
            workflow |-> NewBaseWorkflow, refined |-> <<>>]
  IN /\ Cardinality(running) < MaxIterations(config)
     /\ nextExec' = nextExec + 1
     /\ activeWorkflows' = activeWorkflows \cup {id}
     /\ exec' = exec @@ (id :> LoopTop(x))
     /\ lastCall' = NoCall
     /\ UNCHANGED <<config, audit, gateVars>>

\* executeWorkflow(workflow, stream, token)
ExecuteWorkflow(tokenCancelled) ==
  LET id == nextExec
      x == [pc |-> "start",
            state |-> [status |-> "thinking", iterations |-> 0,
                       error |-> Undefined, endTime |-> Undefined,
                       currentPhase |-> NoPhase],
            token |-> tokenCancelled,
            calls |-> [think |-> 0, gate |-> 0, act |-> 0, observe |-> 0,
                       refine |-> 0],
            analysis |-> <<>>, actions |-> <<>>, observations |-> <<>>,
            gateReq |-> 0, result |-> <<>>, thrown |-> Undefined,
            timer |-> "none",
            workflow |-> NewBaseWorkflow, refined |-> <<>>]
  IN /\ nextExec' = nextExec + 1
     /\ activeWorkflows' = activeWorkflows \cup {id}
     /\ exec' = exec @@ (id :> LoopTop(x))
     /\ lastCall' = NoCall
     /\ UNCHANGED <<config, audit, gateVars>>

\* think() resolved: the governance check, and the start of the act phase
\* when the gate is not asked. The engine awaits requestApproval also when the
\* gate decides by rule; gateReq = 0 stands for that decision, already made.
ThinkReturns(e, analysis) ==
  LET x == [exec[e] EXCEPT
              !.state.currentPhase = [name |-> "think", status |-> "completed"],
              !.analysis = <<analysis>>]
      action == MkAction(TxtWorkflowExecution, analysis.plan, "medium", FALSE)
  IN /\ e \in DOMAIN exec
     /\ exec[e].pc = "think"
     /\ analysis \in Analyses(exec[e].state.iterations)
     /\ IF RequiresGate(analysis, config)
        THEN IF ShouldAutoApprove(governanceRules, action)
             THEN /\ exec' = [exec EXCEPT ![e] = [x EXCEPT !.calls.gate = @ + 1,
                                                           !.pc = "gate",
                                                           !.gateReq = 0]]
                  /\ UNCHANGED gateVars
             ELSE /\ CreateApprovalRequest(action, UndefinedMs)
                  /\ exec' = [exec EXCEPT ![e] = [x EXCEPT !.calls.gate = @ + 1,
                                                           !.pc = "gate",
                                                           !.gateReq = nextReq]]
        ELSE /\ exec' = [exec EXCEPT ![e] = StartAct(x)]
             /\ UNCHANGED gateVars
     /\ lastCall' = NoCall
     /\ UNCHANGED <<config, audit, activeWorkflows, nextExec>>

\* the promise the engine awaits in requestApproval is settled, and its value
GateDecided(x) ==
  IF x.gateReq = 0 THEN TRUE ELSE promise[x.gateReq].calls > 0
GateApproved(x) ==
  IF x.gateReq = 0 THEN TRUE ELSE promise[x.gateReq].value = "true"

\* mutant: the act phase starts without waiting for the decision
ApprovalReturnsWithoutWaiting(e) ==
  /\ e \in DOMAIN exec
  /\ exec[e].pc = "gate"
  /\ exec' = [exec EXCEPT ![e] = StartAct(@)]
  /\ lastCall' = NoCall
  /\ UNCHANGED <<config, audit, gateVars, activeWorkflows, nextExec>>

\* the promise of the gate settled: the engine resumes after requestApproval
ApprovalReturns(e) ==
  /\ e \in DOMAIN exec
  /\ exec[e].pc = "gate"
  /\ GateDecided(exec[e])
  /\ LET x == exec[e]
     IN exec' = [exec EXCEPT ![e] =
          IF GateApproved(x) THEN StartAct(x)
          ELSE [x EXCEPT !.state.status = "failed",
                         !.state.error = "Action denied by user",
                         !.pc = "finally",
                         !.result = <<DeniedResult(x)>>]]
  /\ lastCall' = NoCall
  /\ UNCHANGED <<config, audit, gateVars, activeWorkflows, nextExec>>

\* act() resolved: the start of the observe phase
ActReturns(e, actions) ==
  /\ e \in DOMAIN exec
  /\ exec[e].pc = "act"
  /\ actions \in ActionResults(exec[e].state.iterations)
  /\ exec' = [exec EXCEPT ![e] =
       [@ EXCEPT !.actions = <<actions>>,
                 !.state.status = "observing",
                 !.state.currentPhase = [name |-> "observe", status |-> "in_progress"],
                 !.calls.observe = @ + 1,
                 !.pc = "observe"]]
  /\ lastCall' = NoCall
  /\ UNCHANGED <<config, audit, gateVars, activeWorkflows, nextExec>>

\* observe() resolved: return, or refine and go round the loop
ObserveReturns(e, observations, refineThrows) ==
  /\ e \in DOMAIN exec
  /\ exec[e].pc = "observe"
  /\ observations \in ObservationsOf(exec[e].state.iterations)
  /\ LET x == [exec[e] EXCEPT
                 !.state.currentPhase = [name |-> "observe", status |-> "completed"],
                 !.observations = <<observations>>]
     IN exec' = [exec EXCEPT ![e] =
          IF ~observations.requiresIteration
          THEN [x EXCEPT
                 !.state.status = "completed",
                 !.pc = "finally",
                 !.result = <<CompletedResult(x, observations)>>]
          ELSE IF refineThrows
          THEN [x EXCEPT !.calls.refine = @ + 1,
                         !.pc = "finally",
                         !.thrown = "refine failed"]
          ELSE LET refined == BaseWorkflowRefine(x.workflow, observations)
               IN LoopTop([x EXCEPT !.calls.refine = @ + 1,
                                    !.workflow = refined.workflow,
                                    !.refined = <<refined.observations>>])]
  /\ lastCall' = NoCall
  /\ UNCHANGED <<config, audit, gateVars, activeWorkflows, nextExec>>

\* mutant: the error is caught and a result is made up
PhaseThrowsCaught(e) ==
  /\ e \in DOMAIN exec
  /\ exec[e].pc \in {"think", "act", "observe"}
  /\ exec' = [exec EXCEPT ![e] =
       [@ EXCEPT !.state.status = "failed",
                 !.pc = "finally",
                 !.result = <<MaxIterationsResult(exec[e])>>]]
  /\ lastCall' = NoCall
  /\ UNCHANGED <<config, audit, gateVars, activeWorkflows, nextExec>>

\* think(), act() or observe() rejected: the error leaves executeWorkflow
PhaseThrows(e) ==
  /\ e \in DOMAIN exec
  /\ exec[e].pc \in {"think", "act", "observe"}
  /\ exec' = [exec EXCEPT ![e] =
       [@ EXCEPT !.pc = "finally", !.thrown = exec[e].pc \o " failed"]]
  /\ lastCall' = NoCall
  /\ UNCHANGED <<config, audit, gateVars, activeWorkflows, nextExec>>

\* executeWorkflowInternal has returned or thrown: the finally block of
\* executeWorkflow runs, and the result or the error reaches the caller
FinallyRuns(e) ==
  /\ e \in DOMAIN exec
  /\ exec[e].pc = "finally"
  /\ exec' = [exec EXCEPT ![e] =
       [Finally(@) EXCEPT !.pc = IF exec[e].thrown = Undefined THEN "returned"
                                 ELSE "thrown"]]
  /\ lastCall' = NoCall
  /\ UNCHANGED <<config, audit, gateVars, activeWorkflows, nextExec>>

\* the caller's cancellation token becomes cancelled
CancelToken(e) ==
  /\ e \in DOMAIN exec
  /\ ~exec[e].token
  /\ exec[e].pc \notin {"returned", "thrown"}
  /\ exec' = [exec EXCEPT ![e].token = TRUE]
  /\ lastCall' = NoCall
  /\ UNCHANGED <<config, audit, gateVars, activeWorkflows, nextExec>>

\* cancelWorkflow(workflowId)
CancelWorkflow(id) ==
  /\ IF id \notin activeWorkflows
     THEN /\ lastCall' = Call("cancelWorkflow", id, Undefined, "false")
          /\ UNCHANGED exec
     ELSE /\ lastCall' = Call("cancelWorkflow", id, Undefined, "true")
          /\ exec' = [exec EXCEPT ![id].state.status = "failed",
                                  ![id].state.error = "Cancelled by user",
                                  ![id].state.endTime = "set"]
  /\ UNCHANGED <<config, audit, gateVars, activeWorkflows, nextExec>>

\* the callback of the retention timer armed by the finally block
RetentionCallback(e) ==
  /\ e \in DOMAIN exec
  /\ exec[e].timer = "armed"
  /\ activeWorkflows' = activeWorkflows \ {e}
  /\ exec' = [exec EXCEPT ![e].timer = "fired"]
  /\ lastCall' = NoCall
  /\ UNCHANGED <<config, audit, gateVars, nextExec>>

\* getActiveWorkflows(): the values of the live table
GetActiveWorkflows == [id \in activeWorkflows |-> exec[id].state]

\* getWorkflowState(workflowId)
GetWorkflowState(id) ==
  IF id \in activeWorkflows THEN <<exec[id].state>> ELSE <<>>

(***************************************************************************)
(* Operations of the gate, as called from outside, and its callbacks       *)
(***************************************************************************)
\* requestApproval(action, timeout) called by another caller than the engine
RequestApproval(action, timeout) ==
  /\ IF ShouldAutoApprove(governanceRules, action)
     THEN /\ lastCall' = Call("requestApproval", 0, [action |-> action, timeout |-> timeout], "true")
          /\ UNCHANGED gateVars
     ELSE IF ShouldAutoDeny(action)
     THEN /\ lastCall' = Call("requestApproval", 0, [action |-> action, timeout |-> timeout], "false")
          /\ UNCHANGED gateVars
     ELSE /\ CreateApprovalRequest(action, timeout)
          /\ lastCall' = Call("requestApproval", nextReq,
                               [action |-> action, timeout |-> timeout], "pending")
  /\ UNCHANGED <<config, audit, engineVars>>

\* handleApproval(requestId, approved, comment) called from outside
HandleApproval(id, approved, comment) ==
  /\ HandleApprovalBody(id, approved, comment, dialog)
  /\ lastCall' = NoCall
  /\ UNCHANGED <<config, audit, engineVars>>

\* showInformationMessage resolved: the rest of showApprovalDialog, up to
\* the await of the dashboard command when the answer is View Details
DialogAnswer(id, answer) ==
  /\ id \in DOMAIN dialog
  /\ dialog[id].open
  /\ LET closed == [dialog EXCEPT ![id].open = FALSE]
     IN IF answer = "View Details"
        THEN /\ dialog[id].shown < MaxShown
             /\ dialog' = [closed EXCEPT ![id].command = TRUE]
             /\ UNCHANGED <<governanceRules, requests, pendingApprovals,
                            approvalHandlers, promise, timers, nextReq>>
        ELSE IF answer \in {"Approve", "Deny"}
        THEN HandleApprovalBody(id, answer = "Approve", Undefined, closed)
        ELSE HandleApprovalBody(id, FALSE, "Dismissed", closed)
  /\ lastCall' = NoCall
  /\ UNCHANGED <<config, audit, engineVars>>

\* executeCommand('agent.showDashboard') settled: when it resolved the
\* re-show timer is set; when it rejected showApprovalDialog ends there
CommandSettles(id, resolved) ==
  /\ id \in DOMAIN dialog
  /\ dialog[id].command
  /\ dialog' = [dialog EXCEPT ![id].command = FALSE]
  /\ timers' = [timers EXCEPT ![id].reshow = resolved]
  /\ lastCall' = NoCall
  /\ UNCHANGED <<governanceRules, requests, pendingApprovals, approvalHandlers,
                 promise, nextReq>>
  /\ UNCHANGED <<config, audit, engineVars>>

\* the callback of the timer set after View Details: show the dialog again
ReshowCallback(id) ==
  /\ id \in DOMAIN timers
  /\ timers[id].reshow
  /\ timers' = [timers EXCEPT ![id].reshow = FALSE]
  /\ dialog' = [dialog EXCEPT ![id] = ShowApprovalDialog(@)]
  /\ lastCall' = NoCall
  /\ UNCHANGED <<governanceRules, requests, pendingApprovals, approvalHandlers,
                 promise, nextReq>>
  /\ UNCHANGED <<config, audit, engineVars>>

TimeoutFires(id) ==
  /\ id \in DOMAIN timers
  /\ timers[id].timeout = "armed"
  /\ TimeoutCallback(id)
  /\ lastCall' = NoCall
  /\ UNCHANGED <<config, audit, engineVars>>

HistoryFires(id) ==
  /\ id \in DOMAIN timers
  /\ timers[id].evict > 0
  /\ HistoryCallback(id)
  /\ lastCall' = NoCall
  /\ UNCHANGED <<config, audit, engineVars>>

CancelApproval(id) ==
  /\ CancelApprovalBody(id)
  /\ lastCall' = Call("cancelApproval", id, Undefined, BoolStr(CancelApprovalReturns(id)))
  /\ UNCHANGED <<config, audit, engineVars>>

Dispose ==
  /\ DisposeBody
  /\ lastCall' = Call("dispose", 0, Undefined, Undefined)
  /\ UNCHANGED <<config, audit, engineVars>>

AddRule(rule) ==
  /\ Len(governanceRules) < MaxRules
  /\ governanceRules' = AddRuleTo(governanceRules, rule)
  /\ lastCall' = NoCall
  /\ UNCHANGED <<requests, pendingApprovals, approvalHandlers, promise, timers,
                 dialog, nextReq>>
  /\ UNCHANGED <<config, audit, engineVars>>

RemoveRule(ruleId) ==
  /\ governanceRules' = RemoveRuleFrom(governanceRules, ruleId)
  /\ lastCall' = Call("removeRule", 0, ruleId,
                        BoolStr(FindIndex(governanceRules, ruleId) # -1))
  /\ UNCHANGED <<requests, pendingApprovals, approvalHandlers, promise, timers,
                 dialog, nextReq>>
  /\ UNCHANGED <<config, audit, engineVars>>

RuleIds == {"file-system-write", "read-only", "high-impact", "test-rule",
            "deploy-rule", "no-such-rule"}
DialogAnswers == {"Approve", "Deny", "View Details", Undefined}

(***************************************************************************)
(* AuditLogger and ApprovalManager                                         *)
(***************************************************************************)
\* addEntry: push, keep the last maxLogEntries, save; a failed save is
\* caught and logged
AddEntry(a, entry, saveFails) ==
  LET pushed == Append(a.logs, entry)
      logs == IF Len(pushed) > MaxLogEntries
              THEN SubSeq(pushed, Len(pushed) - MaxLogEntries + 1, Len(pushed))
              ELSE pushed
  IN [a EXCEPT !.logs = logs,
               !.stored = IF saveFails THEN @ ELSE logs]

\* logApproval(requestId, approved, action)
LogApproval(a, requestId, approved, action, saveFails) ==
  AddEntry(a, [type |-> "approval", requestId |-> requestId,
               approved |-> approved, action |-> action], saveFails)

\* logToolExecution(toolId, parameters)
LogToolExecution(a, toolId, parameters, saveFails) ==
  AddEntry(a, [type |-> "tool_execution", toolId |-> toolId,
               parameters |-> parameters], saveFails)

\* logWorkflow(workflowId, workflowName, status, details): the fields of
\* details are spread last and replace the named ones
LogWorkflow(a, workflowId, workflowName, status, details, saveFails) ==
  AddEntry(a, [type |-> "workflow",
               details |-> details @@ [workflowId |-> workflowId,
                                       workflowName |-> workflowName,
                                       status |-> status]], saveFails)

\* logError(error, context)
LogError(a, error, context, saveFails) ==
  AddEntry(a, [type |-> "error", message |-> error.message,
               stack |-> error.stack, context |-> context], saveFails)

\* clearLogs() up to its await: the list is emptied and the save is called;
\* a failed save leaves the stored copy as it was
ClearLogsOf(a, saveFails) ==
  [a EXCEPT !.logs = <<>>,
            !.stored = IF saveFails THEN @ ELSE <<>>]

\* action.type || 'unknown'
TypeOrUnknown(action) ==
  IF action.type = <<>> THEN <<"unknown">> ELSE action.type

\* ApprovalManager.requestApproval up to its await of the gate: the gate
\* decides by rule (`auto`: the promises already resolved, in the order in
\* which their continuations will run) or creates a request (`awaiting`)
ManagerRequestApproval(action, timeout) ==
  /\ IF ShouldAutoApprove(governanceRules, action) \/ ShouldAutoDeny(action)
     THEN /\ Len(audit.logs) + Len(audit.auto) < MaxAudit
          /\ Len(audit.returning) + Len(audit.auto) < MaxAudit
          /\ audit' = [audit EXCEPT !.auto = Append(@,
                         [action |-> action,
                          approved |-> ShouldAutoApprove(governanceRules, action)])]
          /\ UNCHANGED gateVars
     ELSE /\ CreateApprovalRequest(action, timeout)
          /\ audit' = [audit EXCEPT !.awaiting = @ \cup {nextReq}]
  /\ lastCall' = NoCall
  /\ UNCHANGED <<config, engineVars>>

\* the promise of the gate settled: ApprovalManager.requestApproval logs
\* the decision and awaits logApproval
ManagerResumes(id, saveFails) ==
  /\ id \in audit.awaiting
  /\ promise[id].calls > 0
  /\ audit' = [LogApproval(audit, TypeOrUnknown(requests[id].action),
                           promise[id].value = "true", requests[id].action,
                           saveFails)
                 EXCEPT !.awaiting = @ \ {id},
                        !.returning = Append(@,
                           [id |-> id, action |-> requests[id].action,
                            ret |-> promise[id].value])]
  /\ lastCall' = NoCall
  /\ UNCHANGED <<config, gateVars, engineVars>>

\* the same continuation after a decision by rule
ManagerResumesAuto(saveFails) ==
  /\ audit.auto # <<>>
  /\ LET d == Head(audit.auto)
     IN audit' = [LogApproval(audit, TypeOrUnknown(d.action), d.approved,
                              d.action, saveFails)
                    EXCEPT !.auto = Tail(@),
                           !.returning = Append(@,
                              [id |-> 0, action |-> d.action,
                               ret |-> BoolStr(d.approved)])]
  /\ lastCall' = NoCall
  /\ UNCHANGED <<config, gateVars, engineVars>>

\* logApproval settled: ApprovalManager.requestApproval returns the decision
ManagerReturns ==
  /\ audit.returning # <<>>
  /\ LET r == Head(audit.returning)
     IN lastCall' = Call("ApprovalManager.requestApproval", r.id,
                         [action |-> r.action], r.ret)
  /\ audit' = [audit EXCEPT !.returning = Tail(@)]
  /\ UNCHANGED <<config, gateVars, engineVars>>

\* the number of entries of a log that are not approvals
OtherEntries(logs) ==
  Cardinality({i \in 1..Len(logs) : logs[i].type # "approval"})

\* the other public operations of AuditLogger, called by the extension
AuditLogToolExecution(toolId, parameters, saveFails) ==
  /\ OtherEntries(audit.logs) < MaxLogged
  /\ audit' = LogToolExecution(audit, toolId, parameters, saveFails)
  /\ lastCall' = NoCall
  /\ UNCHANGED <<config, gateVars, engineVars>>

AuditLogWorkflow(workflowId, workflowName, status, details, saveFails) ==
  /\ OtherEntries(audit.logs) < MaxLogged
  /\ audit' = LogWorkflow(audit, workflowId, workflowName, status, details,
                          saveFails)
  /\ lastCall' = NoCall
  /\ UNCHANGED <<config, gateVars, engineVars>>

AuditLogError(error, context, saveFails) ==
  /\ OtherEntries(audit.logs) < MaxLogged
  /\ audit' = LogError(audit, error, context, saveFails)
  /\ lastCall' = NoCall
  /\ UNCHANGED <<config, gateVars, engineVars>>

\* clearLogs up to `await this.saveLogs()`
ClearLogs(saveFails) ==
  /\ Len(audit.clearing) < MaxClearing
  /\ audit' = [ClearLogsOf(audit, saveFails)
                 EXCEPT !.clearing = Append(@, IF saveFails THEN "rejected"
                                                            ELSE Undefined)]
  /\ lastCall' = NoCall
  /\ UNCHANGED <<config, gateVars, engineVars>>

\* the save settled: clearLogs returns, or throws the error of the save again
ClearLogsReturns ==
  /\ audit.clearing # <<>>
  /\ lastCall' = Call("clearLogs", 0, Undefined, Head(audit.clearing))
  /\ audit' = [audit EXCEPT !.clearing = Tail(@)]
  /\ UNCHANGED <<config, gateVars, engineVars>>

\* arguments of the logger's operations
WorkflowDetails == {[duration |-> 1]}
Errors == {[message |-> "boom", stack |-> "at f"]}

(***************************************************************************)
(* Specification                                                           *)
(***************************************************************************)
Init ==
  /\ config \in Configs
  /\ governanceRules = SetupDefaultRules(config)
  /\ requests = <<>>
  /\ pendingApprovals = {}
  /\ approvalHandlers = {}
  /\ promise = <<>>
  /\ timers = <<>>
  /\ dialog = <<>>
  /\ nextReq = 1
  /\ lastCall = NoCall
  /\ activeWorkflows = {}
  /\ exec = <<>>
  /\ nextExec = 1
  /\ audit = [logs |-> <<>>, stored |-> <<>>, awaiting |-> {}, auto |-> <<>>,
              returning |-> <<>>, clearing |-> <<>>]

\* the life cycle of approval requests: callers, timers and the dialog
GateNext ==
  \/ \E a \in LifecycleActions, t \in TimeoutArgs : RequestApproval(a, t)
  \/ \E id \in ReqIds, b \in BOOLEAN, c \in Comments : HandleApproval(id, b, c)
  \/ \E id \in ReqIds, ans \in DialogAnswers : DialogAnswer(id, ans)
  \/ \E id \in ReqIds, ok \in BOOLEAN : CommandSettles(id, ok)
  \/ \E id \in ReqIds : ReshowCallback(id)
  \/ \E id \in ReqIds : TimeoutFires(id)
  \/ \E id \in ReqIds : HistoryFires(id)
  \/ \E id \in ReqIds : CancelApproval(id)
  \/ Dispose

\* the rule list and the automatic decisions it leads to
RulesNext ==
  \/ \E r \in CustomRules : AddRule(r)
  \/ \E rid \in RuleIds : RemoveRule(rid)
  \/ \E a \in ApiActions : RequestApproval(a, UndefinedMs)
  \/ \E id \in ReqIds : CancelApproval(id)

\* the engine's loop, its callers and its timers
EngineNext ==
  \/ \E c \in BOOLEAN : nextExec <= MaxExec /\ ExecuteWorkflow(c)
  \/ \E e \in DOMAIN exec : \E a \in Analyses(exec[e].state.iterations) : ThinkReturns(e, a)
  \/ \E e \in DOMAIN exec : ApprovalReturns(e)
  \/ \E e \in DOMAIN exec : \E r \in ActionResults(exec[e].state.iterations) : ActReturns(e, r)
  \/ \E e \in DOMAIN exec : \E o \in ObservationsOf(exec[e].state.iterations), t \in BOOLEAN :
        ObserveReturns(e, o, t)
  \/ \E e \in DOMAIN exec : PhaseThrows(e)
  \/ \E e \in DOMAIN exec : FinallyRuns(e)
  \/ \E e \in DOMAIN exec : CancelToken(e)
  \/ \E id \in ExecIds : CancelWorkflow(id)
  \/ \E e \in DOMAIN exec : RetentionCallback(e)

\* what settles the approval the engine waits for
EngineGateNext ==
  \/ \E id \in ReqIds, ans \in DialogAnswers \ {"View Details"} : DialogAnswer(id, ans)
  \/ \E id \in ReqIds : TimeoutFires(id)
  \/ \E id \in ReqIds : HandleApproval(id, TRUE, Undefined)
  \/ \E id \in ReqIds : HistoryFires(id)
  \/ \E r \in {r \in CustomRules : r.id = "test-rule"} : AddRule(r)

\* several executions on one engine
ConcurrentNext ==
  \/ nextExec <= MaxConcurrent /\ ExecuteWorkflow(FALSE)
  \/ \E e \in DOMAIN exec :
        \E a \in {a \in Analyses(exec[e].state.iterations) : a.plan = TxtPlanBuild} :
           ThinkReturns(e, a)
  \/ \E e \in DOMAIN exec : ApprovalReturns(e)
  \/ \E e \in DOMAIN exec : \E r \in ActionResults(exec[e].state.iterations) : ActReturns(e, r)
  \/ \E e \in DOMAIN exec : \E o \in ObservationsOf(exec[e].state.iterations) :
        ObserveReturns(e, o, FALSE)
  \/ \E e \in DOMAIN exec : PhaseThrows(e)
  \/ \E e \in DOMAIN exec : FinallyRuns(e)
  \/ \E e \in DOMAIN exec : CancelToken(e)
  \/ \E id \in ConcurrentIds : CancelWorkflow(id)
  \/ \E e \in DOMAIN exec : RetentionCallback(e)
  \/ \E id \in ReqIds, ans \in {"Approve", "Deny"} : DialogAnswer(id, ans)

\* approvals asked for through ApprovalManager and by the engine
AuditNext ==
  \/ \E a \in LifecycleActions : ManagerRequestApproval(a, UndefinedMs)
  \/ \E id \in ReqIds, f \in BOOLEAN : ManagerResumes(id, f)
  \/ \E f \in BOOLEAN : ManagerResumesAuto(f)
  \/ ManagerReturns
  \/ AuditLogToolExecution("tool", Undefined, FALSE)
  \/ \E d \in WorkflowDetails : AuditLogWorkflow(1, "default", "completed", d, FALSE)
  \/ \E e \in Errors : AuditLogError(e, Undefined, TRUE)
  \/ \E f \in BOOLEAN : ClearLogs(f)
  \/ ClearLogsReturns
  \/ \E id \in ReqIds, ans \in {"Approve", "Deny"} : DialogAnswer(id, ans)
  \/ \E id \in ReqIds : TimeoutFires(id)
  \/ nextExec <= MaxExec /\ ExecuteWorkflow(FALSE)
  \/ \E e \in DOMAIN exec :
        \E a \in {a \in Analyses(exec[e].state.iterations) :
                   a.plan = TxtPlanBuild /\ a.requiresApproval} :
           ThinkReturns(e, a)
  \/ \E e \in DOMAIN exec : ApprovalReturns(e)
  \/ \E e \in DOMAIN exec : \E r \in ActionResults(exec[e].state.iterations) : ActReturns(e, r)
  \/ \E e \in DOMAIN exec :
        \E o \in {o \in ObservationsOf(exec[e].state.iterations) : o.success} :
           ObserveReturns(e, o, FALSE)
  \/ \E e \in DOMAIN exec : FinallyRuns(e)

Next == GateNext \/ RulesNext \/ EngineNext \/ ConcurrentNext \/ AuditNext

Spec == Init /\ [][Next]_vars

\* the gate alone, with the default rules
InitGate == Init /\ config.maxConcurrentWorkflows = 0
SpecGate == InitGate /\ [][GateNext]_vars

\* the rule list alone
SpecRules == InitGate /\ [][RulesNext]_vars

\* the engine and the gate it consults
InitEngine == Init /\ config.approvalTimeout = 0
SpecEngine == InitEngine /\ [][EngineNext \/ EngineGateNext]_vars

\* several executions in flight on one engine
InitConcurrent ==
  Init /\ config.approvalTimeout = 0 /\ config.maxConcurrentWorkflows \in {1, 2}
SpecConcurrent == InitConcurrent /\ [][ConcurrentNext]_vars

\* approvals with audit logging
InitAudit ==
  Init /\ config.approvalTimeout = 0 /\ config.maxConcurrentWorkflows = 1
SpecAudit == InitAudit /\ [][AuditNext]_vars

\* a phase of the strategy of execution e ends: it returns or it throws
PhaseEnds(e) ==
  /\ e \in DOMAIN exec
  /\ \/ \E an \in Analyses(exec[e].state.iterations) : ThinkReturns(e, an)
     \/ \E r \in ActionResults(exec[e].state.iterations) : ActReturns(e, r)
     \/ \E o \in ObservationsOf(exec[e].state.iterations), t \in BOOLEAN :
           ObserveReturns(e, o, t)
     \/ PhaseThrows(e)

\* the gate with all its callers and the engine that waits for it
LiveNext ==
  \/ \E a \in LifecycleActions : RequestApproval(a, 1000)
  \/ \E id \in ReqIds : HandleApproval(id, TRUE, Undefined)
  \/ \E id \in ReqIds, ans \in DialogAnswers : DialogAnswer(id, ans)
  \/ \E id \in ReqIds, ok \in BOOLEAN : CommandSettles(id, ok)
  \/ \E id \in ReqIds : ReshowCallback(id)
  \/ \E id \in ReqIds : TimeoutFires(id)
  \/ \E id \in ReqIds : HistoryFires(id)
  \/ \E id \in ReqIds : CancelApproval(id)
  \/ Dispose
  \/ nextExec <= MaxExec /\ ExecuteWorkflow(FALSE)
  \/ \E e \in ExecIds : PhaseEnds(e)
  \/ \E e \in ExecIds : ApprovalReturns(e)
  \/ \E e \in ExecIds : FinallyRuns(e)
  \/ \E e \in DOMAIN exec : CancelToken(e)
  \/ \E id \in ExecIds : CancelWorkflow(id)
  \/ \E e \in DOMAIN exec : RetentionCallback(e)

\* timers that are armed fire, phases that were started end, and a
\* continuation whose promise has resolved runs; callers and the user at the
\* dialog are free never to act
Fairness ==
  /\ \A id \in ReqIds : WF_vars(TimeoutFires(id))
  /\ \A e \in ExecIds : WF_vars(PhaseEnds(e))
  /\ \A e \in ExecIds : WF_vars(ApprovalReturns(e))
  /\ \A e \in ExecIds : WF_vars(FinallyRuns(e))

InitLive ==
  Init /\ config.approvalTimeout = 5000 /\ config.maxConcurrentWorkflows = 2
       /\ ~config.autoApproveReadOnly
SpecLive == InitLive /\ [][LiveNext]_vars /\ Fairness

(***************************************************************************)
(* Properties of the approval gate                                         *)
(***************************************************************************)
Created == DOMAIN requests

\* C1: the resolve function of a request's promise is called at most once
\* whatever the interleaving of handleApproval, the timeout timer,
\* cancelApproval and dispose; the first settlement decides the delivered
\* boolean (true only for an explicit approval) and nothing is delivered
\* afterwards.
C1_ResolvedAtMostOnce ==
  [][\A id \in Created :
       /\ promise'[id].calls <= 1
       /\ promise[id].calls = 1 => promise'[id] = promise[id]
       /\ (promise[id].calls = 0 /\ promise'[id].calls = 1) =>
            promise'[id].value =
              (IF requests'[id].status = "approved" THEN "true" ELSE "false")
     ]_vars

\* a settled request on which a later decision was attempted: it was
\* approved, its timer was cleared, and a second handleApproval said deny
C1_Witness ==
  \E id \in Created :
     /\ promise[id] = [calls |-> 1, value |-> "true"]
     /\ timers[id].timeout = "cleared"
     /\ requests[id].status = "denied"

\* C2: once the status of a retained request has left pending, no later
\* operation changes its status or its response.
C2_TerminalStatusSetOnce ==
  [][\A id \in pendingApprovals :
       (requests[id].status # "pending" /\ id \in pendingApprovals') =>
          /\ requests'[id].status = requests[id].status
          /\ requests'[id].response = requests[id].response
     ]_vars

\* C3 as stated: the timer runs for the timeout argument, or for the
\* configured approvalTimeout when no timeout is given; when it fires the
\* request is expired, resolved false and no longer pending; while it is
\* armed the request is listed as pending.
C3_TimerEffects ==
  \A id \in Created :
     /\ timers[id].timeout = "fired" =>
          /\ promise[id] = [calls |-> 1, value |-> "false"]
          /\ requests[id].status = "expired"
          /\ id \notin GetPendingApprovals
     /\ timers[id].timeout = "armed" =>
          /\ id \in GetPendingApprovals
          /\ promise[id].calls = 0
C3_AsStated ==
  /\ C3_TimerEffects
  /\ (lastCall.op = "requestApproval" /\ lastCall.ret = "pending") =>
       timers[lastCall.id].ms =
         (IF lastCall.arg.timeout # UndefinedMs THEN lastCall.arg.timeout
          ELSE config.approvalTimeout)

\* C3 amended: the timer runs for the timeout argument when it is given and
\* not zero, else for the configured approvalTimeout when that is not zero,
\* else for 30000 ms; the rest as stated.
C3_TimeoutExpires ==
  /\ C3_TimerEffects
  /\ (lastCall.op = "requestApproval" /\ lastCall.ret = "pending") =>
       timers[lastCall.id].ms =
         (IF lastCall.arg.timeout \notin {UndefinedMs, 0} THEN lastCall.arg.timeout
          ELSE IF config.approvalTimeout # 0 THEN config.approvalTimeout
          ELSE 30000)

\* a request whose timer fired after the 30000 ms fallback
C3_Witness ==
  \E id \in Created :
     /\ timers[id].timeout = "fired"
     /\ timers[id].ms = 30000
     /\ requests[id].status = "expired"

\* C4: an action that matches, by type or description, a rule with
\* autoApprove is approved at once: requestApproval returns true, creates no
\* request, starts no timer and shows no dialog.
C4_MatchesAutoApproveRule(action) ==
  \E i \in 1..Len(governanceRules) :
     /\ governanceRules[i].autoApprove
     /\ \/ PatternTest(RegExp[governanceRules[i].pattern], action.type)
        \/ PatternTest(RegExp[governanceRules[i].pattern], action.description)
C4_AutoApprove ==
  [][(lastCall'.op = "requestApproval"
        /\ C4_MatchesAutoApproveRule(lastCall'.arg.action)) =>
       /\ lastCall'.ret = "true"
       /\ UNCHANGED <<requests, pendingApprovals, approvalHandlers, promise,
                      timers, dialog, nextReq>>
     ]_vars

\* an action approved by the custom rule /deploy/ although the match-all
\* and (for its description) other rules without autoApprove match it too
C4_Witness ==
  /\ lastCall.op = "requestApproval"
  /\ lastCall.ret = "true"
  /\ lastCall.arg.action.type = TxtDeploy
  /\ lastCall.arg.action.description = TxtRunTest
  /\ \E i \in 1..Len(governanceRules) : governanceRules[i].id = "deploy-rule"
  /\ \A i \in 1..Len(governanceRules) : governanceRules[i].id # "test-rule"

(***************************************************************************)
(* Properties of the workflow engine                                       *)
(***************************************************************************)
Started == DOMAIN exec

\* executeWorkflowInternal has returned a result, or has thrown: the finally
\* block of executeWorkflow is about to run, or has run and the caller has
\* the result or the error
Returning(x) == x.pc \in {"finally", "returned"} /\ x.thrown = Undefined
Throwing(x) == x.pc \in {"finally", "thrown"} /\ x.thrown # Undefined

\* the iteration cap in force: the configured value, 5 when none is set
IterationCap ==
  IF config.maxConcurrentWorkflows = 0 THEN 5 ELSE config.maxConcurrentWorkflows

DenialFeedback == <<"Action denied by user">>

\* C5: a Deny answer or a dismissal of the dialog of a pending request
\* resolves requestApproval false, once; the engine then returns the denial
\* result with the current iteration count, without act or observe in that
\* iteration, and the execution does nothing further.
C5_DenialState ==
  \A e \in Started :
     LET x == exec[e]
         k == x.state.iterations
     IN (x.gateReq # 0 /\ promise[x.gateReq].value = "false" /\ x.pc # "gate") =>
          /\ Returning(x)
          /\ promise[x.gateReq].calls = 1
          /\ x.result[1].success = FALSE
          /\ x.result[1].observations =
               [success |-> FALSE, requiresIteration |-> FALSE,
                feedback |-> DenialFeedback]
          /\ x.result[1].iterations = k
          /\ x.calls.think = k
          /\ x.calls.act = k - 1
          /\ x.calls.observe = k - 1
C5_DenialStep ==
  /\ \A id \in Created :
        (/\ dialog[id].open /\ ~dialog'[id].open
         /\ id \in GetPendingApprovals
         /\ requests'[id].status = "denied") =>
           promise'[id] = [calls |-> 1, value |-> "false"]
  /\ \A e \in Started :
        Returning(exec[e]) =>
          /\ Returning(exec'[e])
          /\ exec'[e].pc = "finally" => exec[e].pc = "finally"
          /\ exec'[e].calls = exec[e].calls
          /\ exec'[e].result = exec[e].result
C5_DenialEndsExecution == [](C5_DenialState) /\ [][C5_DenialStep]_vars

\* the dialog of the engine's request was dismissed in the second
\* iteration and the execution returned
C5_Witness ==
  \E e \in Started :
     /\ exec[e].gateReq # 0
     /\ requests[exec[e].gateReq].status = "denied"
     /\ requests[exec[e].gateReq].response = "Dismissed"
     /\ promise[exec[e].gateReq].value = "false"
     /\ exec[e].pc = "returned"
     /\ exec[e].state.iterations = 2
     /\ exec[e].calls.act = 1

\* C6: when every observe asks for another iteration (and nothing throws,
\* is denied or is cancelled) the execution ends after exactly cap cycles,
\* with success false, iterations = cap and the feedback naming the cap.
C6_MaxIterations ==
  \A e \in Started :
     LET x == exec[e]
     IN /\ x.state.iterations <= IterationCap
        /\ x.calls.think <= IterationCap
        /\ (/\ Returning(x)
            /\ x.calls.refine = x.calls.observe
            /\ x.calls.act = x.calls.think) =>
             /\ x.calls.think = IterationCap
             /\ x.calls.act = IterationCap
             /\ x.calls.observe = IterationCap
             /\ x.result[1].success = FALSE
             /\ x.result[1].iterations = IterationCap
             /\ x.result[1].observations.feedback =
                  <<"Max iterations (", IterationCap, ") reached">>
        /\ (x.pc \in {"think", "gate", "act", "observe"}) =>
             x.calls.refine = x.state.iterations - 1

\* an execution that ran the default five cycles and returned
C6_Witness ==
  \E e \in Started :
     /\ exec[e].pc = "returned"
     /\ exec[e].calls.observe = 5
     /\ exec[e].calls.refine = 5
     /\ exec[e].result[1].iterations = 5
     /\ exec[e].result[1].success = FALSE

\* C7: the execution returns at the first iteration k whose observation
\* asks for no iteration, with iterations = k, the success flag of that
\* observation and the analysis, actions and observations of iteration k;
\* refine was called k - 1 times and every phase k times.
C7_ReturnsAtFirstDone ==
  \A e \in Started :
     LET x == exec[e]
         k == x.state.iterations
     IN /\ (x.observations # <<>> /\ ~x.observations[1].requiresIteration) =>
             (Returning(x) /\ x.result[1].observations = x.observations[1])
        /\ (/\ Returning(x)
            /\ x.calls.act = x.calls.think
            /\ x.calls.refine # x.calls.observe) =>
             /\ x.calls.think = k /\ x.calls.act = k /\ x.calls.observe = k
             /\ x.calls.refine = k - 1
             /\ x.result[1].iterations = k
             /\ x.result[1].observations = x.observations[1]
             /\ x.result[1].observations.feedback = <<"Iteration ", k>>
             /\ ~x.result[1].observations.requiresIteration
             /\ x.result[1].success = x.observations[1].success
             /\ x.result[1].analysis = x.analysis[1]
             /\ x.result[1].analysis.steps = <<k>>
             /\ x.result[1].actions = x.actions[1]
             /\ x.result[1].actions[1].stepId = k

\* an execution that returned in its second iteration with a failed
\* observation
C7_Witness ==
  \E e \in Started :
     /\ exec[e].pc = "returned"
     /\ exec[e].state.iterations = 2
     /\ exec[e].calls.refine = 1
     /\ exec[e].calls.observe = 2
     /\ exec[e].result[1].success = FALSE
     /\ exec[e].result[1].observations.feedback = <<"Iteration ", 2>>

NoCalls == [think |-> 0, gate |-> 0, act |-> 0, observe |-> 0, refine |-> 0]

\* C8: executeWorkflow called with a cancelled token fails with 'Workflow
\* cancelled' and never calls think, act, observe, refine or the gate.
C8_CancelledBeforeStart ==
  [][/\ \A e \in DOMAIN exec' \ DOMAIN exec :
          exec'[e].token =>
            /\ Throwing(exec'[e])
            /\ exec'[e].thrown = "Workflow cancelled"
            /\ exec'[e].calls = NoCalls
            /\ UNCHANGED gateVars
     /\ \A e \in Started :
          Throwing(exec[e]) =>
            /\ Throwing(exec'[e])
            /\ exec'[e].pc = "finally" => exec[e].pc = "finally"
            /\ exec'[e].thrown = exec[e].thrown
            /\ exec'[e].calls = exec[e].calls
            /\ exec'[e].gateReq = exec[e].gateReq
    ]_vars

C8_Witness ==
  \E e \in Started :
     /\ exec[e].token
     /\ exec[e].pc = "thrown"
     /\ exec[e].thrown = "Workflow cancelled"
     /\ exec[e].calls = NoCalls
     /\ exec[e].state.iterations = 0

\* C9: a token cancelled during think, the approval wait, act or observe
\* of iteration k does not interrupt the iteration: each phase is followed
\* by the next one as without cancellation; after observe the execution
\* returns normally when no iteration is asked for, and otherwise fails with
\* the cancellation error before think is called again.
C9_CooperativeCancellation ==
  [][\A e \in Started :
       LET x == exec[e]
           y == exec'[e]
       IN x.token =>
            /\ y.calls.think = x.calls.think
            /\ (x.pc = "think" /\ y.pc # "think") =>
                 (y.pc \in {"gate", "act"} \/ y.thrown = "think failed")
            /\ (x.pc = "gate" /\ y.pc # "gate") =>
                 \/ y.pc = "act"
                 \/ /\ Returning(y)
                    /\ y.result[1].observations.feedback = DenialFeedback
            /\ (x.pc = "act" /\ y.pc # "act") =>
                 (y.pc = "observe" \/ y.thrown = "act failed")
            /\ (x.pc = "observe" /\ y.pc # "observe") =>
                 \/ /\ Returning(y)
                    /\ ~y.observations[1].requiresIteration
                    /\ y.result[1].observations = y.observations[1]
                    /\ y.result[1].iterations = x.state.iterations
                 \/ /\ y.thrown = "Workflow cancelled"
                    /\ y.observations[1].requiresIteration
                    /\ y.calls.refine = x.calls.refine + 1
                 \/ y.thrown \in {"observe failed", "refine failed"}
    ]_vars

\* the token was cancelled during the first iteration, which ran to its
\* end; the error was raised before a second think
C9_Witness ==
  \E e \in Started :
     /\ exec[e].thrown = "Workflow cancelled"
     /\ exec[e].state.iterations = 1
     /\ exec[e].calls = [think |-> 1, gate |-> 1, act |-> 1, observe |-> 1,
                         refine |-> 1]

\* C10: cancelWorkflow returns false and changes nothing for an id that is
\* not in the live table; for a live id it returns true and marks the state
\* failed with the cancellation error, after which the execution begins no
\* further iteration.
C10_CancelWorkflowStops ==
  [][/\ lastCall'.op = "cancelWorkflow" =>
          /\ lastCall'.ret = BoolStr(lastCall'.id \in activeWorkflows)
          /\ lastCall'.ret = "false" => UNCHANGED <<exec, activeWorkflows, gateVars>>
          /\ lastCall'.ret = "true" =>
               /\ exec'[lastCall'.id].state.status = "failed"
               /\ exec'[lastCall'.id].state.error = "Cancelled by user"
     /\ \A e \in Started :
          exec[e].state.error = "Cancelled by user" =>
            exec'[e].calls.think = exec[e].calls.think
    ]_vars

\* C11: the engine calls the gate in an iteration exactly when the analysis
\* of that iteration has requiresApproval and config.autoApproveReadOnly is
\* false; otherwise no request, timer or dialog is created, whatever the
\* rules are, and the act phase starts.
C11_GateConsultedIff ==
  [][\A e \in Started :
       LET x == exec[e]
           y == exec'[e]
       IN /\ (x.pc = "think" /\ y.pc \notin {"think", "finally"}) =>
               LET needed == y.analysis[1].requiresApproval
                               /\ ~config.autoApproveReadOnly
               IN /\ y.calls.gate = x.calls.gate + (IF needed THEN 1 ELSE 0)
                  /\ ~needed =>
                       /\ y.pc = "act"
                       /\ requests' = requests
                       /\ dialog' = dialog
                       /\ timers' = timers
                       /\ promise' = promise
          /\ y.calls.gate # x.calls.gate => x.pc = "think"
    ]_vars

\* an analysis that requires approval went on to act without the gate,
\* because the flag is set
C11_Witness ==
  \E e \in Started :
     /\ exec[e].pc = "act"
     /\ exec[e].analysis[1].requiresApproval
     /\ config.autoApproveReadOnly
     /\ exec[e].calls.gate = 0
     /\ requests = <<>>

\* C12: within one execution the phases are called in the order think,
\* gate, act, observe, and iterations do not overlap: act is called only
\* once think has returned and, when the gate was consulted, once it
\* resolved true; observe only once act has returned; the next think only
\* once observe and refine have returned.
C12_Counts ==
  \A e \in Started :
     LET c == exec[e].calls
     IN /\ c.act <= c.think /\ c.think <= c.act + 1
        /\ c.observe <= c.act /\ c.act <= c.observe + 1
        /\ c.refine <= c.observe /\ c.observe <= c.refine + 1
        /\ c.think <= c.refine + 1
        /\ c.gate <= c.think
C12_Step ==
  \A e \in Started :
     LET x == exec[e]
         y == exec'[e]
     IN /\ y.calls.act # x.calls.act =>
             /\ y.calls.act = x.calls.act + 1
             /\ y.calls.act = y.calls.think
             /\ y.analysis # <<>>
             /\ \/ /\ x.pc = "think"
                   /\ y.calls.gate = x.calls.gate
                   /\ requests' = requests
                \/ /\ x.pc = "gate"
                   /\ x.gateReq # 0
                   /\ promise[x.gateReq].value = "true"
                \/ /\ x.pc = "gate"
                   /\ x.gateReq = 0
                   /\ ShouldAutoApprove(governanceRules,
                        MkAction(TxtWorkflowExecution, x.analysis[1].plan,
                                 "medium", FALSE))
        /\ y.calls.observe # x.calls.observe =>
             /\ y.calls.observe = x.calls.observe + 1
             /\ y.calls.observe = y.calls.act
             /\ x.pc = "act"
             /\ y.actions # <<>>
        /\ y.calls.refine # x.calls.refine =>
             /\ y.calls.refine = x.calls.refine + 1
             /\ x.pc = "observe"
             /\ y.observations # <<>> \/ y.calls.think = x.calls.think + 1
        /\ y.calls.think # x.calls.think =>
             /\ y.calls.think = x.calls.think + 1
             /\ x.pc = "observe"
             /\ y.calls.refine = x.calls.refine + 1
             /\ y.calls.refine = x.calls.observe
C12_PhaseOrder == [](C12_Counts) /\ [][C12_Step]_vars

\* the second act was called after the gate resolved true
C12_Witness ==
  \E e \in Started :
     /\ exec[e].pc = "act"
     /\ exec[e].calls = [think |-> 2, gate |-> 1, act |-> 2, observe |-> 1,
                         refine |-> 1]
     /\ exec[e].gateReq # 0
     /\ promise[exec[e].gateReq].value = "true"

StatusRank(status) ==
  CASE status = "pending" -> 0
    [] status = "thinking" -> 1
    [] status = "acting" -> 2
    [] status = "observing" -> 3
    [] status \in {"completed", "failed"} -> 4

\* C13: the status of an execution only moves forward through pending,
\* thinking, acting, observing, completed/failed: no step moves it back
\* to an earlier status and a terminal status is never left.
C13_StatusOnlyForward ==
  [][\A e \in Started :
       LET before == exec[e].state.status
           after == exec'[e].state.status
       IN /\ StatusRank(after) >= StatusRank(before)
          /\ before \in {"completed", "failed"} => after = before
    ]_vars

\* C14: the iteration counter of an execution never decreases, grows by
\* exactly one for each cycle started (each call of think) and never
\* exceeds the cap (config.maxConcurrentWorkflows, 5 when that is not set).
C14_CounterState ==
  \A e \in Started :
     /\ exec[e].state.iterations = exec[e].calls.think
     /\ exec[e].state.iterations <= IterationCap
     /\ exec[e].state.iterations >= 0
C14_CounterStep ==
  /\ \A e \in Started :
        LET d == exec'[e].state.iterations - exec[e].state.iterations
        IN /\ d \in {0, 1}
           /\ d = 1 <=> exec'[e].calls.think = exec[e].calls.think + 1
           /\ d = 1 => exec'[e].pc = "think"
  /\ \A e \in DOMAIN exec' \ Started :
        exec'[e].state.iterations = (IF exec'[e].pc = "think" THEN 1 ELSE 0)
C14_IterationCounter == [](C14_CounterState) /\ [][C14_CounterStep]_vars

\* the configured cap of two was reached and the execution ended
C14_Witness ==
  \E e \in Started :
     /\ config.maxConcurrentWorkflows = 2
     /\ exec[e].state.iterations = 2
     /\ exec[e].calls.refine = 2
     /\ exec[e].pc = "returned"

\* C15: once executeWorkflow has ended by a denial or by an observed
\* cancellation, the state answered by getWorkflowState while the execution
\* is retained has status 'failed' with the denial or cancellation error,
\* never 'completed'.
C15_FailedStateReported ==
  \A id \in Started :
     LET x == exec[id]
     IN GetWorkflowState(id) # <<>> =>
          /\ (x.pc = "returned"
                /\ x.result[1].observations.feedback = DenialFeedback) =>
               /\ GetWorkflowState(id)[1].status = "failed"
               /\ GetWorkflowState(id)[1].error = "Action denied by user"
          /\ (x.pc = "thrown" /\ x.thrown = "Workflow cancelled") =>
               /\ GetWorkflowState(id)[1].status = "failed"
               /\ GetWorkflowState(id)[1].error = "Cancelled by user"

Settled(x) == x.pc \in {"returned", "thrown"}

\* C16: an execution is in the live table from the call of executeWorkflow
\* on, before any phase runs; when the call settles, however it does, the
\* end time is stamped and the state stays answered by getWorkflowState and
\* getActiveWorkflows until the retention timer fires; it is removed by
\* that timer and by nothing else.
C16_RetentionState ==
  \A id \in Started :
     LET x == exec[id]
     IN /\ x.timer = "fired" <=> id \notin activeWorkflows
        /\ Settled(x) <=> x.timer \in {"armed", "fired"}
        /\ Settled(x) => x.state.endTime = "set"
        /\ x.timer # "fired" =>
             /\ GetWorkflowState(id) = <<x.state>>
             /\ id \in DOMAIN GetActiveWorkflows
             /\ GetActiveWorkflows[id] = x.state
        /\ x.timer = "fired" =>
             /\ GetWorkflowState(id) = <<>>
             /\ id \notin DOMAIN GetActiveWorkflows
C16_RetentionStep ==
  /\ \A id \in DOMAIN exec' \ Started : id \in activeWorkflows'
  /\ \A id \in activeWorkflows \ activeWorkflows' :
        exec[id].timer = "armed" /\ exec'[id].timer = "fired"
C16_Retention == [](C16_RetentionState) /\ [][C16_RetentionStep]_vars

\* an execution that failed in act, with its end time, after its
\* retention timer fired
C16_Witness ==
  \E id \in Started :
     /\ exec[id].thrown = "act failed"
     /\ exec[id].state.endTime = "set"
     /\ exec[id].timer = "fired"
     /\ id \notin activeWorkflows

\* C17: when think, act, observe or refine throws, executeWorkflow fails
\* with that error: no phase of the execution is called afterwards, nothing
\* is retried and no result is returned in place of the error.
C17_ErrorsPropagate ==
  [][\A e \in Started :
       LET x == exec[e]
           y == exec'[e]
       IN /\ (/\ Throwing(y) /\ ~Throwing(x)
              /\ y.thrown # "Workflow cancelled") =>
               /\ x.pc \in {"think", "act", "observe"}
               /\ y.thrown = (IF y.calls.refine = x.calls.refine + 1
                              THEN "refine failed" ELSE x.pc \o " failed")
               /\ y.result = <<>>
               /\ y.calls.think = x.calls.think
               /\ y.calls.gate = x.calls.gate
               /\ y.calls.act = x.calls.act
               /\ y.calls.observe = x.calls.observe
          /\ Throwing(x) =>
               /\ Throwing(y)
               /\ y.pc = "finally" => x.pc = "finally"
               /\ y.thrown = x.thrown
               /\ y.calls = x.calls
               /\ y.result = <<>>
          /\ (Returning(y) /\ ~Returning(x)) =>
               \/ x.pc = "gate" /\ promise[x.gateReq].value = "false"
               \/ x.pc = "observe" /\ y.observations # <<>>
    ]_vars

\* observe of the second iteration threw
C17_Witness ==
  \E e \in Started :
     /\ exec[e].pc = "thrown"
     /\ exec[e].thrown = "observe failed"
     /\ exec[e].state.iterations = 2
     /\ exec[e].calls.observe = 2
     /\ exec[e].calls.refine = 1
     /\ exec[e].result = <<>>

\* C18: executions in flight at the same time are independent: a call of
\* executeWorkflow is accepted however many executions are running, each
\* execution has its own state, counter and approval request, and a step
\* of one execution (or its cancellation) changes nothing of another.
C18_OwnState ==
  /\ nextExec <= MaxConcurrent => ENABLED ExecuteWorkflow(FALSE)
  /\ \A e \in Started :
        /\ exec[e].state.iterations = exec[e].calls.think
        /\ exec[e].state.iterations <= IterationCap
  /\ \A e1, e2 \in Started :
        (e1 # e2 /\ exec[e1].gateReq # 0) => exec[e1].gateReq # exec[e2].gateReq
C18_OneAtATime ==
  /\ \A e1, e2 \in Started :
        e1 # e2 => (exec'[e1] = exec[e1] \/ exec'[e2] = exec[e2])
  /\ DOMAIN exec' # Started => \A e \in Started : exec'[e] = exec[e]
  /\ lastCall'.op = "cancelWorkflow" =>
        \A e \in Started \ {lastCall'.id} : exec'[e] = exec[e]
C18_Independent == [](C18_OwnState) /\ [][C18_OneAtATime]_vars

\* two executions are in flight at once although maxConcurrentWorkflows is
\* one; the first waits for its approval, the second is observing
C18_Witness ==
  /\ config.maxConcurrentWorkflows = 1
  /\ DOMAIN exec = {1, 2}
  /\ exec[1].pc = "gate"
  /\ exec[2].pc = "observe"
  /\ exec[1].state.iterations = 1
  /\ exec[2].state.iterations = 1

\* C19: dispose resolves every pending request false and clears its timer;
\* after it the gate has no pending request, no retained request and no
\* handler, and for a request the gate has let go no timer and no call
\* delivers a resolution or brings it back.
C19_DisposeStep ==
  /\ lastCall'.op = "dispose" =>
       /\ pendingApprovals' = {}
       /\ approvalHandlers' = {}
       /\ GetPendingApprovals' = {}
       /\ GetAllApprovals' = {}
       /\ \A id \in GetPendingApprovals :
             /\ promise'[id] = [calls |-> 1, value |-> "false"]
             /\ timers'[id].timeout = "cleared"
       /\ \A id \in Created \ GetPendingApprovals : promise'[id] = promise[id]
       /\ \A id \in Created : timers'[id].timeout # "armed"
  /\ \A id \in Created :
       (id \notin pendingApprovals /\ id \notin approvalHandlers) =>
          /\ promise'[id] = promise[id]
          /\ requests'[id] = requests[id]
          /\ id \notin pendingApprovals'
          /\ id \notin approvalHandlers'
C19_Dispose == [][C19_DisposeStep]_vars

\* dispose resolved a pending request
C19_Witness ==
  /\ lastCall.op = "dispose"
  /\ \E id \in Created :
        /\ requests[id].status = "pending"
        /\ promise[id] = [calls |-> 1, value |-> "false"]
        /\ timers[id].timeout = "cleared"
  /\ pendingApprovals = {}
  /\ approvalHandlers = {}

\* C20: cancelApproval(id) returns true exactly when id names a request of
\* the gate whose status is pending; the promise then resolves false, the
\* timer is cleared and the request is no longer pending.  For any other id
\* it returns false and changes nothing of the gate.
C20_CancelApproval ==
  [][lastCall'.op = "cancelApproval" =>
       LET id == lastCall'.id
       IN /\ lastCall'.ret = BoolStr(id \in GetPendingApprovals)
          /\ lastCall'.ret = "true" =>
               /\ promise'[id] = [calls |-> 1, value |-> "false"]
               /\ timers'[id].timeout = "cleared"
               /\ id \notin GetPendingApprovals'
          /\ lastCall'.ret = "false" => UNCHANGED gateVars
    ]_vars

\* a pending request was cancelled
C20_Witness ==
  /\ lastCall.op = "cancelApproval"
  /\ lastCall.ret = "true"
  /\ promise[lastCall.id] = [calls |-> 1, value |-> "false"]
  /\ requests[lastCall.id].response = "Cancelled"
  /\ timers[lastCall.id].timeout = "cleared"

\* C21: a request settled by an explicit decision, by its timeout or by
\* cancelApproval leaves the pending listing at once, stays in
\* getAllApprovals with its terminal status, and leaves getAllApprovals
\* only when a grace timer fires.
C21_SettledRetained ==
  [][lastCall'.op # "dispose" =>
       \A id \in Created :
          /\ (id \in GetPendingApprovals /\ promise'[id].calls = 1) =>
               /\ id \notin GetPendingApprovals'
               /\ id \in GetAllApprovals'
               /\ requests'[id].status \in {"approved", "denied", "expired"}
          /\ (id \in GetAllApprovals /\ id \notin GetAllApprovals') =>
               timers'[id].evict = timers[id].evict - 1
    ]_vars

\* C22: getApprovalStats counts every request of the gate under its
\* status: the total is the sum of the four counts, and a request whose
\* timer has just fired is counted as expired.
C22_StatsCountExpired ==
  [][/\ GetApprovalStats'.total =
          GetApprovalStats'.approved + GetApprovalStats'.denied
            + GetApprovalStats'.pending + GetApprovalStats'.expired
     /\ \A id \in Created :
          (timers[id].timeout = "armed" /\ timers'[id].timeout = "fired") =>
             /\ requests'[id].status = "expired"
             /\ GetApprovalStats'.expired >= 1
    ]_vars

\* the engine's call of the gate returned in this step
\* the number of approval entries of a log
ApprovalEntries(logs) ==
  Cardinality({i \in 1..Len(logs) : logs[i].type = "approval"})

GateDecisionDelivered(e) ==
  exec[e].pc = "gate" /\ exec'[e].pc # "gate"

\* C23: every approval decision is written to the audit log exactly once,
\* whether it was asked for through ApprovalManager or by the workflow
\* engine, and a failed save of the log changes neither the decision nor
\* the execution.  Only clearLogs takes entries out of the log, when it is
\* called and not when it returns.
C23_AuditedOnce ==
  [][LET managerResumed == Len(audit'.returning) > Len(audit.returning)
         managerReturned == lastCall'.op = "ApprovalManager.requestApproval"
         delivered == (IF managerResumed THEN 1 ELSE 0)
                        + Cardinality({e \in Started : GateDecisionDelivered(e)})
         cleared == Len(audit'.clearing) > Len(audit.clearing)
     IN /\ ~cleared =>
             ApprovalEntries(audit'.logs) = ApprovalEntries(audit.logs) + delivered
        /\ cleared => audit'.logs = <<>>
        /\ managerResumed =>
             LET r == audit'.returning[Len(audit'.returning)]
                 entry == audit'.logs[Len(audit'.logs)]
             IN /\ entry.type = "approval"
                /\ entry.approved = (r.ret = "true")
                /\ entry.action = r.action
                /\ r.id # 0 => r.ret = promise[r.id].value
        /\ managerReturned =>
             /\ audit.returning # <<>>
             /\ lastCall'.ret = Head(audit.returning).ret
             /\ lastCall'.arg.action = Head(audit.returning).action
    ]_vars

SortedByPriority(rules) ==
  \A i, j \in 1..Len(rules) : i < j => rules[i].priority >= rules[j].priority
WithoutIndex(rules, i) ==
  SubSeq(rules, 1, i - 1) \o SubSeq(rules, i + 1, Len(rules))

\* C24: getRules is always sorted by descending priority and holds
\* exactly the rules added and not removed: addRule adds its rule and
\* nothing else, removeRule(id) returns true and removes one rule with
\* that id when there is one, and returns false and changes nothing
\* otherwise.
C24_RulesStep ==
  /\ lastCall'.op = "removeRule" =>
       LET rid == lastCall'.arg
           has == \E i \in 1..Len(GetRules) : GetRules[i].id = rid
       IN /\ lastCall'.ret = BoolStr(has)
          /\ has => \E i \in 1..Len(GetRules) :
                       /\ GetRules[i].id = rid
                       /\ GetRules' = WithoutIndex(GetRules, i)
          /\ ~has => GetRules' = GetRules
  /\ (lastCall'.op # "removeRule" /\ GetRules' # GetRules) =>
       \E i \in 1..Len(GetRules') :
          /\ GetRules'[i] \in CustomRules
          /\ WithoutIndex(GetRules', i) = GetRules
C24_RulesSorted ==
  [](SortedByPriority(GetRules)) /\ [][C24_RulesStep]_vars

\* both custom rules were added, then the read-only rule was removed
C24_Witness ==
  /\ lastCall.op = "removeRule"
  /\ lastCall.arg = "read-only"
  /\ lastCall.ret = "true"
  /\ Len(GetRules) = 3
  /\ GetRules[1].id = "test-rule"
  /\ GetRules[2].id = "deploy-rule"
  /\ GetRules[3].id = "high-impact"

\* C25: requestApproval approves by rule exactly when the matching rule of
\* highest priority has autoApprove: a matching rule of lower priority
\* with autoApprove does not approve an action that a rule of higher
\* priority without autoApprove matches.
C25_FirstMatchWins ==
  [][lastCall'.op = "requestApproval" =>
       LET action == lastCall'.arg.action
           matching == {i \in 1..Len(GetRules) : RuleMatches(GetRules[i], action)}
           top == {i \in matching :
                     \A j \in matching : GetRules[j].priority <= GetRules[i].priority}
       IN /\ lastCall'.ret = "true" => \E i \in top : GetRules[i].autoApprove
          /\ (top # {} /\ \A i \in top : GetRules[i].autoApprove) =>
               lastCall'.ret = "true"
    ]_vars

\* C26: a View Details answer settles nothing: the request stays pending
\* with its timeout timer running as it was, so that it can still expire;
\* once the dashboard command has settled the dialog is due to be shown
\* again, and it is shown again when the re-show timer fires; an Approve or
\* Deny on the dialog shown again settles the request as on the first one.
C26_WhileViewing ==
  \A id \in Created :
     ((dialog[id].command \/ timers[id].reshow) /\ id \in GetPendingApprovals) =>
        /\ timers[id].timeout = "armed"
        /\ ENABLED TimeoutFires(id)
C26_ViewDetailsStep ==
  \A id \in Created :
     /\ (dialog[id].open /\ ~dialog'[id].open /\ dialog'[id].command) =>
          /\ requests' = requests
          /\ promise' = promise
          /\ pendingApprovals' = pendingApprovals
          /\ approvalHandlers' = approvalHandlers
          /\ timers' = timers
     /\ (dialog[id].command /\ ~dialog'[id].command) =>
          /\ timers'[id].reshow
          /\ timers'[id].timeout = timers[id].timeout
          /\ timers'[id].ms = timers[id].ms
          /\ requests' = requests
          /\ promise' = promise
     /\ (timers[id].reshow /\ ~timers'[id].reshow) =>
          /\ dialog'[id].open
          /\ dialog'[id].shown = dialog[id].shown + 1
          /\ requests' = requests
          /\ promise' = promise
          /\ timers'[id].timeout = timers[id].timeout
     /\ (/\ dialog[id].open /\ dialog[id].shown > 1
         /\ ~dialog'[id].open /\ ~dialog'[id].command
         /\ id \in GetPendingApprovals) =>
          /\ requests'[id].status \in {"approved", "denied"}
          /\ promise'[id] = [calls |-> 1,
                             value |-> BoolStr(requests'[id].status = "approved")]
          /\ timers'[id].timeout = "cleared"
C26_ViewDetails == [](C26_WhileViewing) /\ [][C26_ViewDetailsStep]_vars

\* C27: refine of a BaseWorkflow adds one to the strategy's counter, and
\* once the counter has reached the strategy's maxIterations it sets
\* requiresIteration of the observations to false and the engine calls no
\* further think for the execution.
C27_StrategyCapStops ==
  [][\A e \in Started :
       LET x == exec[e]
           y == exec'[e]
       IN /\ (y.calls.refine = x.calls.refine + 1 /\ y.thrown # "refine failed") =>
               /\ y.workflow.iterations = x.workflow.iterations + 1
               /\ y.refined # <<>>
               /\ y.refined[1].requiresIteration
                    = (y.workflow.iterations < BaseMaxIterations)
          /\ y.workflow.iterations >= BaseMaxIterations =>
               y.calls.think = x.calls.think
    ]_vars

\* C29: the handler table and the request table agree: a request has a
\* handler, with its promise unresolved and its timeout timer running, exactly
\* when it is in the request table with status pending.
C29_HandlersMatchPending ==
  /\ approvalHandlers \subseteq Created
  /\ \A id \in Created :
       /\ id \in approvalHandlers
            <=> (id \in pendingApprovals /\ requests[id].status = "pending")
       /\ id \in approvalHandlers =>
            /\ timers[id].timeout = "armed"
            /\ promise[id].calls = 0

\* a request settled by handleApproval is still in the request table and has
\* lost its handler
C29_Witness ==
  \E id \in Created :
    /\ id \in pendingApprovals
    /\ requests[id].status \in {"approved", "denied"}
    /\ id \notin approvalHandlers
    /\ promise[id].calls = 1

\* C30: the dialog is only presented for a request that is pending: every
\* step that presents the dialog of a request, the first time or again after
\* View Details, leaves that request among the pending ones.
C30_ShownOnlyWhilePending ==
  [][\A id \in DOMAIN dialog' :
       dialog'[id].shown > (IF id \in DOMAIN dialog THEN dialog[id].shown ELSE 0)
         => id \in GetPendingApprovals'
    ]_vars

\* C28: a request that is pending has its timeout timer running, with a
\* positive delay; every request created is eventually resolved and no longer
\* pending; every execution started eventually returns or throws.
C28_PendingHasTimer ==
  \A id \in Created :
    id \in GetPendingApprovals =>
      timers[id].timeout = "armed" /\ timers[id].ms > 0

C28_EventuallyResolved ==
  /\ [](C28_PendingHasTimer)
  /\ \A id \in ReqIds :
       (id \in Created)
         ~> (id \in Created /\ promise[id].calls > 0
               /\ id \notin GetPendingApprovals)
  /\ \A e \in ExecIds :
       (e \in Started) ~> (e \in Started /\ Settled(exec[e]))

\* the engine waited for a request that nobody answered: its timer fired and
\* the execution returned
C28_Witness ==
  \E e \in Started :
    /\ exec[e].gateReq \in Created
    /\ requests[exec[e].gateReq].status = "expired"
    /\ timers[exec[e].gateReq].timeout = "fired"
    /\ exec[e].pc = "returned"

====
